---- MODULE Spec2Model ----
(***************************************************************************)
(* The week/result ledger of the cfb-discord-bot: the games and weeks      *)
(* tables as src/src/db.py reads and writes them, and the command handlers *)
(* of src/src/commands that drive them.                                    *)
(*                                                                         *)
(* A nullable column or argument is <<>> (NULL / None) or <<v>>.           *)
(***************************************************************************)
EXTENDS Integers, Sequences, FiniteSets, TLC

VARIABLES
    users,      \* users table: discord_id -> [team_id, admin]; never written by the bot
    weeks,      \* weeks table, in insertion order: [week_num, year, active]
    games,      \* games table: a set of rows
    ui,         \* per caller, the view the loggame flow left open (modal / confirm view)
    reported,   \* history: the coaches whose row was written since the last advance
    last,       \* history: the outcome of the last completed handler
    proc,       \* per caller, the handler in flight when statements interleave
    lockedBy    \* the holder of the row lock on the active weeks row, <<>> when free

vars == <<users, weeks, games, ui, reported, last, proc, lockedBy>>

---------------------------------------------------------------------------
(* Bounds of the model                                                     *)

MaxWeeks == 2            \* weeks rows a run of Spec may hold
MaxRows == 4             \* rows the games table of a run of Spec may hold
MaxCalWeeks == 3         \* weeks rows a run of CalSpec may hold
MaxSeasonWeeks == 24     \* weeks rows a run of SeasonSpec may hold (a season and two weeks)

Null == <<>>
Some(v) == <<v>>

Callers == {"A", "B"}                 \* discord ids that interact with the bot
Teams == {1, 2, 3}                    \* teams table; nobody owns team 3 under TwoCoaches
ScorePairs == {<<1, 0>>, <<0, 1>>, <<1, 1>>}   \* a win, a loss and a tie

\* Directories the checks run on. A coaches team 1 and B team 2, both admins;
\* C coaches team 3 and sends no command of their own.
TwoCoaches == [c \in {"A", "B"} |-> [team_id |-> Some(IF c = "A" THEN 1 ELSE 2), admin |-> TRUE]]
ThreeCoaches ==
    [c \in {"A", "B", "C"} |->
        [team_id |-> Some(IF c = "A" THEN 1 ELSE IF c = "B" THEN 2 ELSE 3), admin |-> c # "C"]]
NoCoaches == [c \in {} |-> [team_id |-> Null, admin |-> FALSE]]
\* Coach A is registered and has no team assigned; coach B owns team 2.
UnassignedCoach == [c \in {"A", "B"} |-> [team_id |-> IF c = "A" THEN Null ELSE Some(2), admin |-> TRUE]]

---------------------------------------------------------------------------
(* Queries of db.py                                                        *)

\* get_active_week_row / get_active_week: SELECT ... WHERE active = TRUE LIMIT 1.
\* The candidates; the caller takes any one of them, or None when there is none.
ActiveRows(w) == {i \in 1..Len(w) : w[i].active}

\* What get_active_week_row and get_active_week may return: the row (its
\* week_num), or None (row["week_num"] if row else None).
GetActiveWeekRow(w) == IF ActiveRows(w) = {} THEN {Null} ELSE {Some(w[i]) : i \in ActiveRows(w)}
GetActiveWeek(w) == {IF row = Null THEN Null ELSE Some(row[1].week_num) : row \in GetActiveWeekRow(w)}

\* get_user_by_team: SELECT * FROM users WHERE team_id = $1 (fetchrow: any one).
UsersByTeam(u, team_id) == {d \in DOMAIN u : u[d].team_id = Some(team_id)}

\* get_user(discord_id)["team_id"], None when the user is unknown.
TeamOfUser(u, discord_id) == IF discord_id \in DOMAIN u THEN u[discord_id].team_id ELSE Null

\* get_game(week_num, discord_id): the rows under that key.
GetGame(g, week_num, discord_id) == {r \in g : r.week_num = week_num /\ r.discord_id = discord_id}

\* has_played_team_this_year, given the active row's year.
HasPlayed(g, discord_id, opponent_id, year) ==
    \E r \in g : r.discord_id = discord_id /\ r.opponent_id = Some(opponent_id) /\ r.year = year

\* _users_report_counts: (COUNT(*) FROM users, COUNT(DISTINCT discord_id) FROM
\* games WHERE week_num = $1).
UsersReportCounts(u, g, week_num) ==
    <<Cardinality(DOMAIN u), Cardinality({r.discord_id : r \in {x \in g : x.week_num = week_num}})>>

---------------------------------------------------------------------------
(* Writes of add_result                                                    *)

\* An upsert whose DO UPDATE adds the new scores to the stored ones.
UpsertAddingScores(g, week_num, year, discord_id, opponent_id, user_score, opp_score, user_win, bye) ==
    IF GetGame(g, week_num, discord_id) # {}
    THEN {IF r.week_num = week_num /\ r.discord_id = discord_id
          THEN [r EXCEPT !.opponent_id = opponent_id,
                         !.user_score = IF r.user_score = Null \/ user_score = Null THEN user_score
                                        ELSE Some(r.user_score[1] + user_score[1]),
                         !.opp_score = IF r.opp_score = Null \/ opp_score = Null THEN opp_score
                                       ELSE Some(r.opp_score[1] + opp_score[1]),
                         !.user_win = user_win, !.bye = bye]
          ELSE r : r \in g}
    ELSE g \cup {[week_num |-> week_num, year |-> year, discord_id |-> discord_id,
                  opponent_id |-> opponent_id, user_score |-> user_score,
                  opp_score |-> opp_score, user_win |-> user_win, bye |-> bye,
                  user_game |-> FALSE]}

\* A plain INSERT, with no key to conflict on.
UpsertAlwaysInsert(g, week_num, year, discord_id, opponent_id, user_score, opp_score, user_win, bye) ==
    g \cup {[week_num |-> week_num, year |-> year, discord_id |-> discord_id,
             opponent_id |-> opponent_id, user_score |-> user_score,
             opp_score |-> opp_score, user_win |-> user_win, bye |-> bye,
             user_game |-> FALSE]}

\* An upsert whose DO UPDATE leaves the opponent of the conflicting row.
UpsertKeepOpponent(g, week_num, year, discord_id, opponent_id, user_score, opp_score, user_win, bye) ==
    IF GetGame(g, week_num, discord_id) # {}
    THEN {IF r.week_num = week_num /\ r.discord_id = discord_id
          THEN [r EXCEPT !.user_score = user_score,
                         !.opp_score = opp_score, !.user_win = user_win, !.bye = bye]
          ELSE r : r \in g}
    ELSE g \cup {[week_num |-> week_num, year |-> year, discord_id |-> discord_id,
                  opponent_id |-> opponent_id, user_score |-> user_score,
                  opp_score |-> opp_score, user_win |-> user_win, bye |-> bye,
                  user_game |-> FALSE]}

\* INSERT INTO games ... ON CONFLICT (week_num, discord_id) DO UPDATE SET
\* opponent_id, user_score, opp_score, user_win, bye: a conflicting row keeps
\* its year and its user_game; a new row takes the column default of user_game.
Upsert(g, week_num, year, discord_id, opponent_id, user_score, opp_score, user_win, bye) ==
    IF GetGame(g, week_num, discord_id) # {}
    THEN {IF r.week_num = week_num /\ r.discord_id = discord_id
          THEN [r EXCEPT !.opponent_id = opponent_id, !.user_score = user_score,
                         !.opp_score = opp_score, !.user_win = user_win, !.bye = bye]
          ELSE r : r \in g}
    ELSE g \cup {[week_num |-> week_num, year |-> year, discord_id |-> discord_id,
                  opponent_id |-> opponent_id, user_score |-> user_score,
                  opp_score |-> opp_score, user_win |-> user_win, bye |-> bye,
                  user_game |-> FALSE]}

\* UPDATE games SET user_game = TRUE WHERE week_num = $1 AND discord_id = ANY($2).
FlagUserGame(g, week_num, ids) ==
    {IF r.week_num = week_num /\ r.discord_id \in ids THEN [r EXCEPT !.user_game = TRUE] ELSE r : r \in g}

\* The first upsert of add_result: the reporter's own row.
UpsertReporter(g, aw, result) ==
    Upsert(g, aw.week_num, aw.year, result.discord_id, result.opponent_id,
           result.user_score, result.opponent_score, result.user_win, result.bye)

\* The mirrored outcome copied from the reporter instead of negated.
MirrorWinCopied(win) == win

\* mirror_user_win: None stays None, otherwise negated.
MirrorWin(win) == IF win = Null THEN Null ELSE Some(~win[1])

\* A mirrored upsert that is left out when the reporter has no team.
UpsertMirrorNeedsTeam(g, aw, u, result, opponent_discord_id) ==
    IF TeamOfUser(u, result.discord_id) = Null THEN g
    ELSE Upsert(g, aw.week_num, aw.year, opponent_discord_id, TeamOfUser(u, result.discord_id),
                result.opponent_score, result.user_score, MirrorWin(result.user_win), FALSE)

\* The second upsert of add_result: the opponent's row, from their side.
UpsertMirror(g, aw, u, result, opponent_discord_id) ==
    Upsert(g, aw.week_num, aw.year, opponent_discord_id, TeamOfUser(u, result.discord_id),
           result.opponent_score, result.user_score, MirrorWin(result.user_win), FALSE)

\* The users add_result mirrors to: none for a bye, a missing opponent or a
\* team nobody owns.
MirrorTargets(u, result) ==
    IF result.opponent_id = Null \/ result.bye THEN {} ELSE UsersByTeam(u, result.opponent_id[1])

\* add_result run to its end on the active row aw, mirroring to user o.
AddResultMirrored(g, aw, u, result, o) ==
    FlagUserGame(UpsertMirror(UpsertReporter(g, aw, result), aw, u, result, o),
                 aw.week_num, {result.discord_id, o})

\* The games tables add_result may leave, with the coaches whose rows it wrote.
AddResult(g, aw, u, result) ==
    IF MirrorTargets(u, result) = {}
    THEN {[games |-> UpsertReporter(g, aw, result), wrote |-> {result.discord_id}]}
    ELSE {[games |-> AddResultMirrored(g, aw, u, result, o), wrote |-> {result.discord_id, o}] :
            o \in MirrorTargets(u, result)}

---------------------------------------------------------------------------
(* get_standings                                                           *)

\* Rows of every year.
StandingsRowsAllYears(g, year) == g

\* FROM games WHERE year = $1.
StandingsRows(g, year) == {r \in g : r.year = year}

\* One group of GROUP BY discord_id with its sums and its count.
StandingsEntry(rows, d) ==
    [discord_id |-> d,
     wins |-> Cardinality({r \in rows : r.discord_id = d /\ r.user_win = Some(TRUE)}),
     losses |-> Cardinality({r \in rows : r.discord_id = d /\ r.user_win = Some(FALSE)}),
     ties |-> Cardinality({r \in rows : r.discord_id = d /\ r.user_win = Null}),
     total_games |-> Cardinality({r \in rows : r.discord_id = d})]

\* An order that puts more losses first.
StandingsBeforeLossesDesc(a, b) ==
    \/ a.wins > b.wins
    \/ a.wins = b.wins /\ a.losses > b.losses
    \/ a.wins = b.wins /\ a.losses = b.losses /\ a.ties > b.ties

\* ORDER BY wins DESC, losses ASC, ties DESC: a sorts strictly before b.
StandingsBefore(a, b) ==
    \/ a.wins > b.wins
    \/ a.wins = b.wins /\ a.losses < b.losses
    \/ a.wins = b.wins /\ a.losses = b.losses /\ a.ties > b.ties

\* The lists the query may return for a year: the groups in an order that
\* ORDER BY allows (groups with equal keys come in any order).
OrderedStandings(g, year) ==
    LET rows == StandingsRows(g, year)
        entries == {StandingsEntry(rows, d) : d \in {r.discord_id : r \in rows}}
    IN  {s \in [1..Cardinality(entries) -> entries] :
            /\ \A i, j \in DOMAIN s : s[i] = s[j] => i = j
            /\ \A i, j \in DOMAIN s : i < j => ~StandingsBefore(s[j], s[i])}

\* get_standings: the empty list without an active week.
GetStandings(w, g) ==
    IF ActiveRows(w) = {} THEN {<< >>}
    ELSE UNION {OrderedStandings(g, w[i].year) : i \in ActiveRows(w)}

---------------------------------------------------------------------------
(* Week advancement of db.py                                               *)

LastWeek == 21           \* the offseason week: the week after it opens a new season
ConfChampWeek == 16      \* elif week_num == 16 / elif week_num > 16 / week_num % 16

\* The calendar without the new season: week 21 followed by week 22.
NextWeekNoRollover(week_num, year) == <<week_num + 1, year>>

\* The calendar that goes back to week 0 without starting a new year.
NextWeekSameYear(week_num, year) ==
    IF week_num = LastWeek THEN <<0, year>> ELSE <<week_num + 1, year>>

\* _advance_to_next_week, the calendar: the (week_num, year) it inserts.
NextWeek(week_num, year) ==
    IF week_num = LastWeek THEN <<0, year + 1>> ELSE <<week_num + 1, year>>

\* The next week written over the table: the weeks before it are gone.
AdvanceToNextWeekReplace(w, week_num, year) ==
    <<[week_num |-> NextWeek(week_num, year)[1], year |-> NextWeek(week_num, year)[2],
       active |-> TRUE]>>

\* The INSERT of the next week without the UPDATE that deactivates.
AdvanceToNextWeekKeepActive(w, week_num, year) ==
    Append(w, [week_num |-> NextWeek(week_num, year)[1], year |-> NextWeek(week_num, year)[2],
               active |-> TRUE])

\* _advance_to_next_week, the writes: UPDATE weeks SET active = FALSE WHERE
\* active = TRUE, then INSERT the next week as active.
AdvanceToNextWeek(w, week_num, year) ==
    Append([i \in 1..Len(w) |-> [w[i] EXCEPT !.active = FALSE]],
           [week_num |-> NextWeek(week_num, year)[1], year |-> NextWeek(week_num, year)[2],
            active |-> TRUE])

\* _advance_to_next_week, the dict it returns, from the week_num it was called
\* with. Its "week_num" entry is <<"int", n>>, or <<"Bowl Week", k>> for the
\* string f'Bowl Week {k}' written over it; stray is the entry the code adds
\* under the integer key week_num (new_row[week_num] = ...), if any.
Descriptor(week_num, year) ==
    [week_num |-> IF week_num # LastWeek /\ week_num # ConfChampWeek /\ week_num > ConfChampWeek
                  THEN <<"Bowl Week", week_num % ConfChampWeek>>
                  ELSE <<"int", NextWeek(week_num, year)[1]>>,
     year |-> NextWeek(week_num, year)[2],
     active |-> TRUE,
     stray |-> IF week_num = LastWeek THEN <<week_num, "Offseason">>
               ELSE IF week_num = ConfChampWeek THEN <<week_num, "Conference Championships">>
               ELSE Null]

\* The test without the return on total_users == 0.
AllReportedOfNone(counts) == ~(counts[2] < counts[1])

\* maybe_auto_advance_week's test on the counts it read.
AllReported(counts) == ~(counts[1] = 0) /\ ~(counts[2] < counts[1])

\* What one transaction of advance_week leaves when it finds row i active.
AdvanceFrom(w, i) ==
    [weeks |-> AdvanceToNextWeek(w, w[i].week_num, w[i].year),
     ret |-> Some(Descriptor(w[i].week_num, w[i].year)),
     from |-> Some(<<w[i].week_num, w[i].year>>)]

NoAdvance(w) == [weeks |-> w, ret |-> Null, from |-> Null]

\* advance_week run alone: the weeks tables it may leave and what it returns.
AdvanceWeek(w) ==
    IF ActiveRows(w) = {} THEN {NoAdvance(w)} ELSE {AdvanceFrom(w, i) : i \in ActiveRows(w)}

\* maybe_auto_advance_week run alone.
MaybeAutoAdvanceWeek(w, u, g) ==
    IF ActiveRows(w) = {} THEN {NoAdvance(w)}
    ELSE {IF AllReported(UsersReportCounts(u, g, w[i].week_num)) THEN AdvanceFrom(w, i) ELSE NoAdvance(w) :
            i \in ActiveRows(w)}

---------------------------------------------------------------------------
(* Outcomes of handlers (history)                                          *)

\* op, who, out: the handler, its caller and how it ended; arg and week: the
\* result dict add_result was given and the (week_num, year) it read; ret, from
\* and had: what an advance returned, the week it left and the coaches who had
\* reported when it did.
Ev(op, who, out) ==
    [op |-> op, who |-> who, out |-> out, arg |-> Null, week |-> Null,
     ret |-> Null, from |-> Null, had |-> {}]
RecEv(op, who, out, result, aw) ==
    [Ev(op, who, out) EXCEPT !.arg = Some(result), !.week = Some(<<aw.week_num, aw.year>>)]
AdvEv(ev, adv, had) ==
    [ev EXCEPT !.out = "advanced", !.ret = adv.ret, !.from = adv.from, !.had = had]

NoView == [kind |-> "none", opp |-> 0]
Idle == [pc |-> "idle"]

\* An outcome with no tie: anything but a win is a loss.
UserWinNoTie(us, os) == IF us > os THEN Some(TRUE) ELSE Some(FALSE)

\* user_win of ReportModal.on_submit.
UserWin(us, os) == IF us > os THEN Some(TRUE) ELSE IF us < os THEN Some(FALSE) ELSE Null

\* The result dict of ReportModal.on_submit.
GameResult(c, opp, us, os) ==
    [discord_id |-> c, opponent_id |-> Some(opp), user_score |-> Some(us),
     opponent_score |-> Some(os), user_win |-> UserWin(us, os), bye |-> FALSE]

\* The result dict of the BYE path and of the Bye button.
ByeResult(c) ==
    [discord_id |-> c, opponent_id |-> Null, user_score |-> Null,
     opponent_score |-> Null, user_win |-> Null, bye |-> TRUE]

\* validate_user / validate_admin.
ValidateUser(u, c) == c \in DOMAIN u
ValidateAdmin(u, c) == c \in DOMAIN u /\ u[c].admin

---------------------------------------------------------------------------
(* The handlers, each run to its end without another handler in between.   *)
(* cap bounds the weeks table and rows the games table of the              *)
(* specification that runs the action.                                     *)

\* /loggame with opponent = "BYE" (Report.loggame, the BYE path): add_result on
\* the bye result, no completion check.
LogGameBye(c, rows) ==
    /\ \A d \in Callers : proc[d] = Idle
    /\ IF ~ValidateUser(users, c)
       THEN last' = Ev("loggame", c, "not_a_coach") /\ UNCHANGED <<games, reported>>
       ELSE IF ActiveRows(weeks) = {}
       THEN last' = Ev("loggame", c, "raised_no_active_week") /\ UNCHANGED <<games, reported>>
       ELSE \E i \in ActiveRows(weeks) : \E ar \in AddResult(games, weeks[i], users, ByeResult(c)) :
               /\ Cardinality(ar.games) <= rows
               /\ games' = ar.games
               /\ reported' = reported \cup ar.wrote
               /\ last' = RecEv("loggame", c, "bye_logged", ByeResult(c), weeks[i])
    /\ UNCHANGED <<users, weeks, ui, proc, lockedBy>>

\* /loggame with a team (Report.loggame past the BYE path): the rematch check,
\* the active week, the existing row, and the view it opens.
LogGameCmd(c, t) ==
    /\ \A d \in Callers : proc[d] = Idle
    /\ IF ~ValidateUser(users, c)
       THEN last' = Ev("loggame", c, "not_a_coach") /\ UNCHANGED ui
       ELSE IF \E i \in ActiveRows(weeks) : HasPlayed(games, c, t, weeks[i].year)
       THEN last' = Ev("loggame", c, "already_played") /\ UNCHANGED ui
       ELSE IF ActiveRows(weeks) = {}
       THEN last' = Ev("loggame", c, "no_active_week") /\ UNCHANGED ui
       ELSE \E i \in ActiveRows(weeks) :
               IF GetGame(games, weeks[i].week_num, c) = {}
               THEN /\ ui' = [ui EXCEPT ![c] = [kind |-> "modal", opp |-> t]]
                    /\ last' = Ev("loggame", c, "modal")
               ELSE IF \E r \in GetGame(games, weeks[i].week_num, c) : r.user_game
               THEN last' = Ev("loggame", c, "user_game_logged") /\ UNCHANGED ui
               ELSE /\ ui' = [ui EXCEPT ![c] = [kind |-> "confirm", opp |-> t]]
                    /\ last' = Ev("loggame", c, "confirm")
    /\ UNCHANGED <<users, weeks, games, reported, proc, lockedBy>>

\* ConfirmEditView.yes: the modal for the opponent the view was opened with.
ConfirmYes(c) ==
    /\ \A d \in Callers : proc[d] = Idle
    /\ ui[c].kind = "confirm"
    /\ ui' = [ui EXCEPT ![c] = [kind |-> "modal", opp |-> ui[c].opp]]
    /\ last' = Ev("yes", c, "modal")
    /\ UNCHANGED <<users, weeks, games, reported, proc, lockedBy>>

\* ConfirmEditView.no.
ConfirmNo(c) ==
    /\ \A d \in Callers : proc[d] = Idle
    /\ ui[c].kind = "confirm"
    /\ ui' = [ui EXCEPT ![c] = NoView]
    /\ last' = Ev("no", c, "kept")
    /\ UNCHANGED <<users, weeks, games, reported, proc, lockedBy>>

\* ConfirmEditView.bye_button: add_result on the bye result.
ConfirmBye(c, rows) ==
    /\ \A d \in Callers : proc[d] = Idle
    /\ ui[c].kind = "confirm"
    /\ IF ActiveRows(weeks) = {}
       THEN last' = Ev("bye_button", c, "raised_no_active_week") /\ UNCHANGED <<games, reported, ui>>
       ELSE \E i \in ActiveRows(weeks) : \E ar \in AddResult(games, weeks[i], users, ByeResult(c)) :
               /\ Cardinality(ar.games) <= rows
               /\ games' = ar.games
               /\ reported' = reported \cup ar.wrote
               /\ ui' = [ui EXCEPT ![c] = NoView]
               /\ last' = RecEv("bye_button", c, "bye_logged", ByeResult(c), weeks[i])
    /\ UNCHANGED <<users, weeks, proc, lockedBy>>

\* ReportModal.on_submit of log_game.py with two scores: add_result, then
\* maybe_auto_advance_week.
ModalSubmit(c, us, os, cap, rows) ==
    /\ \A d \in Callers : proc[d] = Idle
    /\ ui[c].kind = "modal"
    /\ ui' = [ui EXCEPT ![c] = NoView]
    /\ IF ActiveRows(weeks) = {}
       THEN last' = Ev("submit", c, "raised_no_active_week") /\ UNCHANGED <<weeks, games, reported>>
       ELSE \E i \in ActiveRows(weeks) :
            \E ar \in AddResult(games, weeks[i], users, GameResult(c, ui[c].opp, us, os)) :
            \E adv \in MaybeAutoAdvanceWeek(weeks, users, ar.games) :
               /\ Len(adv.weeks) <= cap /\ Cardinality(ar.games) <= rows
               /\ games' = ar.games
               /\ weeks' = adv.weeks
               /\ reported' = IF adv.ret = Null THEN reported \cup ar.wrote ELSE {}
               /\ last' = LET ev == RecEv("submit", c, "recorded", GameResult(c, ui[c].opp, us, os), weeks[i])
                          IN IF adv.ret = Null THEN ev ELSE AdvEv(ev, adv, reported \cup ar.wrote)
    /\ UNCHANGED <<users, proc, lockedBy>>

\* ReportModal.on_submit with a score field left blank or not a number
\* (_to_int gives None): the message asking for both scores, nothing stored.
ModalSubmitInvalid(c) ==
    /\ \A d \in Callers : proc[d] = Idle
    /\ ui[c].kind = "modal"
    /\ ui' = [ui EXCEPT ![c] = NoView]
    /\ last' = Ev("submit", c, "scores_rejected")
    /\ UNCHANGED <<users, weeks, games, reported, proc, lockedBy>>

\* An /advance that opens week 0 when it finds no active week.
AdvanceCmdOpensWeek(c, cap) ==
    /\ \A d \in Callers : proc[d] = Idle
    /\ ValidateAdmin(users, c)
    /\ ActiveRows(weeks) = {}
    /\ Len(weeks) < cap
    /\ weeks' = Append(weeks, [week_num |-> 0, year |-> 2025, active |-> TRUE])
    /\ reported' = {}
    /\ last' = Ev("advance", c, "advanced")
    /\ UNCHANGED <<users, games, ui, proc, lockedBy>>

\* An /advance that also clears the rows of the week it closes.
AdvanceCmdPurgesWeek(c, cap) ==
    /\ \A d \in Callers : proc[d] = Idle
    /\ IF ~ValidateAdmin(users, c)
       THEN last' = Ev("advance", c, "not_an_admin") /\ UNCHANGED <<weeks, reported, games>>
       ELSE IF ActiveRows(weeks) = {}
       THEN last' = Ev("advance", c, "no_active_week") /\ UNCHANGED <<weeks, reported, games>>
       ELSE \E adv \in AdvanceWeek(weeks) :
               /\ Len(adv.weeks) <= cap
               /\ weeks' = adv.weeks
               /\ games' = {r \in games : \A k \in ActiveRows(weeks) : r.week_num # weeks[k].week_num}
               /\ reported' = {}
               /\ last' = AdvEv(Ev("advance", c, ""), adv, reported)
    /\ UNCHANGED <<users, ui, proc, lockedBy>>

\* /advance (Advance.advance): validate_admin, get_active_week_row, advance_week.
AdvanceCmd(c, cap) ==
    /\ \A d \in Callers : proc[d] = Idle
    /\ IF ~ValidateAdmin(users, c)
       THEN last' = Ev("advance", c, "not_an_admin") /\ UNCHANGED <<weeks, reported>>
       ELSE IF ActiveRows(weeks) = {}
       THEN last' = Ev("advance", c, "no_active_week") /\ UNCHANGED <<weeks, reported>>
       ELSE \E adv \in AdvanceWeek(weeks) :
               /\ Len(adv.weeks) <= cap
               /\ weeks' = adv.weeks
               /\ reported' = {}
               /\ last' = AdvEv(Ev("advance", c, ""), adv, reported)
    /\ UNCHANGED <<users, games, ui, proc, lockedBy>>

\* /standings: get_standings and the list it shows. (standings.py imports a
\* name that utils.py does not define; the action is the call it makes.)
StandingsCmd(c) ==
    /\ \A d \in Callers : proc[d] = Idle
    /\ \E s \in GetStandings(weeks, games) :
          last' = [Ev("get_standings", c, "listed") EXCEPT !.ret = Some(s)]
    /\ UNCHANGED <<users, weeks, games, ui, reported, proc, lockedBy>>

\* add_result called again with the result dict of the report that has just
\* been recorded, while the week it was recorded in is still the active one
\* (the caller retries).
RetryAddResult(c, rows) ==
    /\ \A d \in Callers : proc[d] = Idle
    /\ last.arg # Null /\ last.out \in {"recorded", "bye_logged"}
    /\ last.who = c
    /\ \E i \in ActiveRows(weeks) :
          /\ last.week = Some(<<weeks[i].week_num, weeks[i].year>>)
          /\ \E ar \in AddResult(games, weeks[i], users, last.arg[1]) :
                /\ Cardinality(ar.games) <= rows
                /\ games' = ar.games
                /\ reported' = reported \cup ar.wrote
    /\ last' = [last EXCEPT !.op = "retry"]
    /\ UNCHANGED <<users, weeks, ui, proc, lockedBy>>

---------------------------------------------------------------------------
(* The operations of db.py statement by statement, for callers that        *)
(* interleave. Each _execute / _fetchrow_dict of add_result runs on its own *)
(* pooled connection and commits alone; advance_week and                   *)
(* maybe_auto_advance_week run one transaction (READ COMMITTED) that       *)
(* commits when its block ends.                                            *)

Job(pc, job, result, then_maa) ==
    [pc |-> pc, job |-> job, result |-> result, then_maa |-> then_maa,
     aw |-> [week_num |-> 0, year |-> 0], o |-> "", target |-> 0]

Quiescent == \A c \in Callers : proc[c] = Idle

\* What the job of p leaves in `last` when it ends with outcome out.
JobEv(p, out) == Ev(proc[p].job, p, out)

\* add_result(result) is called: by the BYE path of loggame, which stops
\* after it, or by ReportModal.on_submit of log_game.py, which calls
\* maybe_auto_advance_week after it (then_maa).
StartAddResult(p, result, then_maa) ==
    /\ proc[p] = Idle
    /\ proc' = [proc EXCEPT ![p] = Job("ar_read", IF then_maa THEN "submit" ELSE "loggame", Some(result), then_maa)]
    /\ UNCHANGED <<users, weeks, games, ui, reported, last, lockedBy>>

\* add_result going on to its upsert whether or not it found a week.
ArReadWeekUnchecked(p) ==
    /\ proc[p].pc = "ar_read"
    /\ proc' = [proc EXCEPT ![p].pc = "ar_upsert"]
    /\ UNCHANGED <<users, weeks, games, ui, reported, last, lockedBy>>

\* add_result: active_week_row = await get_active_week_row(); raise if None.
ArReadWeek(p) ==
    /\ proc[p].pc = "ar_read"
    /\ IF ActiveRows(weeks) = {}
       THEN proc' = [proc EXCEPT ![p] = Idle] /\ last' = JobEv(p, "raised_no_active_week")
       ELSE \E i \in ActiveRows(weeks) :
               /\ proc' = [proc EXCEPT ![p].pc = "ar_upsert",
                                       ![p].aw = [week_num |-> weeks[i].week_num, year |-> weeks[i].year]]
               /\ UNCHANGED last
    /\ UNCHANGED <<users, weeks, games, ui, reported, lockedBy>>

\* Where the job of p goes when add_result has returned.
AfterAddResult(p) ==
    IF proc[p].then_maa
    THEN proc' = [proc EXCEPT ![p].pc = "tx_select"] /\ UNCHANGED last
    ELSE proc' = [proc EXCEPT ![p] = Idle] /\ last' = JobEv(p, "recorded")

\* add_result: the reporter's upsert; return when there is nobody to mirror to.
ArUpsert(p, rows) ==
    /\ proc[p].pc = "ar_upsert"
    /\ games' = UpsertReporter(games, proc[p].aw, proc[p].result[1])
    /\ Cardinality(games') <= rows
    /\ reported' = reported \cup {p}
    /\ IF MirrorTargets(users, proc[p].result[1]) = {}
       THEN AfterAddResult(p)
       ELSE proc' = [proc EXCEPT ![p].pc = "ar_mirror"] /\ UNCHANGED last
    /\ UNCHANGED <<users, weeks, ui, lockedBy>>

\* add_result: get_user_by_team, get_user and the mirrored upsert.
ArMirror(p, rows) ==
    /\ proc[p].pc = "ar_mirror"
    /\ \E o \in MirrorTargets(users, proc[p].result[1]) :
          /\ games' = UpsertMirror(games, proc[p].aw, users, proc[p].result[1], o)
          /\ Cardinality(games') <= rows
          /\ reported' = reported \cup {o}
          /\ proc' = [proc EXCEPT ![p].pc = "ar_flag", ![p].o = o]
    /\ UNCHANGED <<users, weeks, ui, last, lockedBy>>

\* add_result: UPDATE games SET user_game = TRUE for both sides.
ArFlag(p) ==
    /\ proc[p].pc = "ar_flag"
    /\ games' = FlagUserGame(games, proc[p].aw.week_num, {p, proc[p].o})
    /\ AfterAddResult(p)
    /\ UNCHANGED <<users, weeks, ui, reported, lockedBy>>

\* advance_week() / maybe_auto_advance_week() is called on its own.
StartAdvanceWeek(p) ==
    /\ proc[p] = Idle
    /\ proc' = [proc EXCEPT ![p] = Job("tx_select", "advance_week", Null, FALSE)]
    /\ UNCHANGED <<users, weeks, games, ui, reported, last, lockedBy>>

StartMaybeAutoAdvance(p) ==
    /\ proc[p] = Idle
    /\ proc' = [proc EXCEPT ![p] = Job("tx_select", "maybe_auto_advance_week", Null, TRUE)]
    /\ UNCHANGED <<users, weeks, games, ui, reported, last, lockedBy>>

\* _get_active_week_row_for_update, the scan: the statement takes its snapshot
\* and finds the row that is active in it, if any.
TxSelect(p) ==
    /\ proc[p].pc = "tx_select"
    /\ IF ActiveRows(weeks) = {}
       THEN proc' = [proc EXCEPT ![p] = Idle] /\ last' = JobEv(p, "none_no_active_week")
       ELSE \E i \in ActiveRows(weeks) :
               proc' = [proc EXCEPT ![p].pc = "tx_lock", ![p].target = i] /\ UNCHANGED last
    /\ UNCHANGED <<users, weeks, games, ui, reported, lockedBy>>

\* A lock that hands out the row found by the scan without looking again.
RowStillMatchesUnchecked(w, i) == TRUE

\* The row the statement found is handed out only if the version it locks still
\* passes WHERE active = TRUE.
RowStillMatches(w, i) == w[i].active

\* _get_active_week_row_for_update, FOR UPDATE: wait for the row lock, look at
\* the row again, and return it or nothing (a row inserted since the scan
\* began is not in the snapshot).
TxLock(p) ==
    /\ proc[p].pc = "tx_lock"
    /\ lockedBy = Null
    /\ IF RowStillMatches(weeks, proc[p].target)
       THEN /\ lockedBy' = Some(p)
            /\ proc' = [proc EXCEPT ![p].pc = IF proc[p].then_maa THEN "tx_count" ELSE "tx_advance"]
            /\ UNCHANGED last
       ELSE /\ proc' = [proc EXCEPT ![p] = Idle]
            /\ last' = JobEv(p, "none_row_taken")
            /\ UNCHANGED lockedBy
    /\ UNCHANGED <<users, weeks, games, ui, reported>>

\* maybe_auto_advance_week: _users_report_counts and the two early returns.
TxCount(p) ==
    /\ proc[p].pc = "tx_count"
    /\ IF AllReported(UsersReportCounts(users, games, weeks[proc[p].target].week_num))
       THEN proc' = [proc EXCEPT ![p].pc = "tx_advance"] /\ UNCHANGED <<last, lockedBy>>
       ELSE /\ proc' = [proc EXCEPT ![p] = Idle]
            /\ lockedBy' = Null
            /\ last' = JobEv(p, IF proc[p].job = "submit" THEN "recorded" ELSE "none_not_all_reported")
    /\ UNCHANGED <<users, weeks, games, ui, reported>>

\* _advance_to_next_week and the commit of the transaction.
TxAdvance(p, cap) ==
    /\ proc[p].pc = "tx_advance"
    /\ Len(weeks) < cap
    /\ weeks' = AdvanceFrom(weeks, proc[p].target).weeks
    /\ lockedBy' = Null
    /\ reported' = {}
    /\ last' = AdvEv(JobEv(p, ""), AdvanceFrom(weeks, proc[p].target), reported)
    /\ proc' = [proc EXCEPT ![p] = Idle]
    /\ UNCHANGED <<users, games, ui>>

\* A failed check that takes the report with it.
MaaErrorLosesReport(p) ==
    /\ proc[p].pc \in {"tx_select", "tx_lock", "tx_count", "tx_advance"}
    /\ proc[p].job = "submit"
    /\ games' = games \ GetGame(games, proc[p].aw.week_num, p)
    /\ proc' = [proc EXCEPT ![p] = Idle]
    /\ lockedBy' = IF lockedBy = Some(p) THEN Null ELSE lockedBy
    /\ last' = JobEv(p, "recorded_check_failed")
    /\ UNCHANGED <<users, weeks, ui, reported>>

\* ReportModal.on_submit, try: maybe_auto_advance_week() except Exception:
\* pass. The check raises somewhere inside its transaction, which is rolled
\* back; the handler goes on as if nothing had been checked.
MaaError(p) ==
    /\ proc[p].pc \in {"tx_select", "tx_lock", "tx_count", "tx_advance"}
    /\ proc[p].job = "submit"
    /\ proc' = [proc EXCEPT ![p] = Idle]
    /\ lockedBy' = IF lockedBy = Some(p) THEN Null ELSE lockedBy
    /\ last' = JobEv(p, "recorded_check_failed")
    /\ UNCHANGED <<users, weeks, games, ui, reported>>

\* The operation of p fails where it stands (the connection is lost, the
\* process is killed): committed statements stay, an open transaction is
\* rolled back and its lock released.
Crash(p) ==
    /\ proc[p] # Idle
    /\ proc' = [proc EXCEPT ![p] = Idle]
    /\ lockedBy' = IF lockedBy = Some(p) THEN Null ELSE lockedBy
    /\ last' = JobEv(p, "crashed")
    /\ UNCHANGED <<users, weeks, games, ui, reported>>

---------------------------------------------------------------------------
(* Spec: three coaches in the last week of a season, handlers one at a time. *)

Week(week_num, year) == [week_num |-> week_num, year |-> year, active |-> TRUE]

InitWith(u, w) ==
    /\ users = u
    /\ weeks = w
    /\ games = {}
    /\ ui = [c \in Callers |-> NoView]
    /\ reported = {}
    /\ last = Ev("start", "", "")
    /\ proc = [c \in Callers |-> Idle]
    /\ lockedBy = Null

Init == InitWith(ThreeCoaches, <<Week(LastWeek, 2025)>>)

\* The teams a caller picks as opponent: any team but their own.
Opponents(c) == {t \in Teams : TeamOfUser(users, c) # Some(t)}

Next ==
    \/ \E c \in Callers : LogGameBye(c, MaxRows)
    \/ \E c \in Callers : \E t \in Opponents(c) : LogGameCmd(c, t)
    \/ \E c \in Callers : ConfirmYes(c)
    \/ \E c \in Callers : ConfirmNo(c)
    \/ \E c \in Callers : ConfirmBye(c, MaxRows)
    \/ \E c \in Callers : \E sp \in ScorePairs : ModalSubmit(c, sp[1], sp[2], MaxWeeks, MaxRows)
    \/ \E c \in Callers : ModalSubmitInvalid(c)
    \/ \E c \in Callers : AdvanceCmd(c, MaxWeeks)

Spec == Init /\ [][Next]_vars

---------------------------------------------------------------------------
(* CalSpec: two coaches, starting in any week of the calendar; the coaches *)
(* report a 1-0 win over team 3 and the admins advance.                    *)

InitCal == \E w \in 0..LastWeek : InitWith(TwoCoaches, <<Week(w, 2025)>>)

NextCal ==
    \/ \E c \in Callers : LogGameCmd(c, 3)
    \/ \E c \in Callers : ModalSubmit(c, 1, 0, MaxCalWeeks, MaxRows)
    \/ \E c \in Callers : AdvanceCmd(c, MaxCalWeeks)

CalSpec == InitCal /\ [][NextCal]_vars

---------------------------------------------------------------------------
(* SeasonSpec: two coaches from the last week of 2025 through the season   *)
(* of 2026 to its last week; the coaches report a 1-0 win over team 3.     *)

NextSeason ==
    \/ \E c \in Callers : LogGameCmd(c, 3)
    \/ \E c \in Callers : ConfirmYes(c)
    \/ \E c \in Callers : ModalSubmit(c, 1, 0, MaxSeasonWeeks, MaxRows)
    \/ \E c \in Callers : AdvanceCmd(c, MaxSeasonWeeks)

SeasonSpec == InitWith(TwoCoaches, <<Week(LastWeek, 2025)>>) /\ [][NextSeason]_vars

---------------------------------------------------------------------------
(* StandSpec: two coaches from week 20 of 2025 into 2026, or with no week  *)
(* at all; they report, the admins advance, anyone asks for the standings. *)

MaxStandWeeks == 3       \* weeks rows a run of StandSpec may hold
MaxStandRows == 3        \* rows the games table of a run of StandSpec may hold

InitStand == \E w \in {<< >>, <<Week(LastWeek - 1, 2025)>>} : InitWith(TwoCoaches, w)

NextStand ==
    \/ \E c \in Callers : LogGameBye(c, MaxStandRows)
    \/ \E c \in Callers : \E t \in Opponents(c) : LogGameCmd(c, t)
    \/ \E c \in Callers : \E sp \in ScorePairs : ModalSubmit(c, sp[1], sp[2], MaxStandWeeks, MaxStandRows)
    \/ \E c \in Callers : AdvanceCmd(c, MaxStandWeeks)
    \/ \E c \in Callers : StandingsCmd(c)

StandSpec == InitStand /\ [][NextStand]_vars

---------------------------------------------------------------------------
(* RetrySpec: the coaches of Spec report, and a report that has been       *)
(* recorded may be sent to add_result a second time.                       *)

NextRetry ==
    \/ \E c \in Callers : LogGameBye(c, MaxRows)
    \/ \E c \in Callers : \E t \in Opponents(c) : LogGameCmd(c, t)
    \/ \E c \in Callers : ConfirmYes(c)
    \/ \E c \in Callers : \E sp \in ScorePairs : ModalSubmit(c, sp[1], sp[2], MaxWeeks, MaxRows)
    \/ \E c \in Callers : RetryAddResult(c, MaxRows)

RetrySpec == Init /\ [][NextRetry]_vars

---------------------------------------------------------------------------
(* UnassignedSpec: coach A without a team and coach B with team 2, from    *)
(* week 20 of 2025; they report through /loggame and the admins advance.   *)

NextUnassigned ==
    \/ \E c \in Callers : LogGameBye(c, MaxRows)
    \/ \E c \in Callers : \E t \in Opponents(c) : LogGameCmd(c, t)
    \/ \E c \in Callers : ConfirmYes(c)
    \/ \E c \in Callers : ConfirmBye(c, MaxRows)
    \/ \E c \in Callers : \E sp \in ScorePairs : ModalSubmit(c, sp[1], sp[2], MaxWeeks, MaxRows)
    \/ \E c \in Callers : ModalSubmitInvalid(c)
    \/ \E c \in Callers : AdvanceCmd(c, MaxWeeks)

UnassignedSpec == InitWith(UnassignedCoach, <<Week(LastWeek - 1, 2025)>>) /\ [][NextUnassigned]_vars

---------------------------------------------------------------------------
(* RematchSpec: two coaches from week 20 of 2025 into week 21 of the same  *)
(* season; they open the score form for any team, submit a 1-0 win, and    *)
(* the admins advance.                                                     *)

MaxRematchWeeks == 3     \* weeks rows a run of RematchSpec may hold

NextRematch ==
    \/ \E c \in Callers : \E t \in Opponents(c) : LogGameCmd(c, t)
    \/ \E c \in Callers : ModalSubmit(c, 1, 0, MaxRematchWeeks, MaxRows)
    \/ \E c \in Callers : AdvanceCmd(c, MaxRematchWeeks)

RematchSpec == InitWith(TwoCoaches, <<Week(LastWeek - 1, 2025)>>) /\ [][NextRematch]_vars

---------------------------------------------------------------------------
(* ConcSpec: the operations of db.py called by two callers at once, on a    *)
(* directory of two coaches or of none, with or without an active week.    *)

MaxConcWeeks == 3        \* weeks rows a run of ConcSpec may hold
MaxConcRows == 2         \* rows the games table of a run of ConcSpec may hold

\* A bye, and a 1-0 win over the other coach's team.
ConcResults(p) == {ByeResult(p), GameResult(p, IF p = "A" THEN 2 ELSE 1, 1, 0)}

InitConc ==
    \E u \in {NoCoaches, TwoCoaches} : \E w \in {<< >>, <<Week(LastWeek, 2025)>>} : InitWith(u, w)

NextConc ==
    \/ \E p \in Callers : \E r \in ConcResults(p) : StartAddResult(p, r, ~r.bye)
    \/ \E p \in Callers : ArReadWeek(p)
    \/ \E p \in Callers : ArUpsert(p, MaxConcRows)
    \/ \E p \in Callers : ArMirror(p, MaxConcRows)
    \/ \E p \in Callers : ArFlag(p)
    \/ \E p \in Callers : StartAdvanceWeek(p)
    \/ \E p \in Callers : StartMaybeAutoAdvance(p)
    \/ \E p \in Callers : TxSelect(p)
    \/ \E p \in Callers : TxLock(p)
    \/ \E p \in Callers : TxCount(p)
    \/ \E p \in Callers : TxAdvance(p, MaxConcWeeks)
    \/ \E p \in Callers : MaaError(p)
    \/ \E p \in Callers : Crash(p)

ConcSpec == InitConc /\ [][NextConc]_vars

---------------------------------------------------------------------------
(* Claims about the ledger, checked under Spec                             *)

\* The outcome the scores (a, b) stand for, and the same seen from the other side.
OutcomeOf(a, b) == IF a > b THEN Some(TRUE) ELSE IF a < b THEN Some(FALSE) ELSE Null
NegatedOutcomeOf(a, b) == IF a > b THEN Some(FALSE) ELSE IF a < b THEN Some(TRUE) ELSE Null

\* The coaches other than A who own the team A reported against.
OwnersReportedAgainst(res) ==
    IF res.opponent_id = Null THEN {}
    ELSE {d \in DOMAIN users \ {res.discord_id} : users[d].team_id = res.opponent_id}

\* C1: right after a report in which coach A, who owns a team, reports scores
\* (a, b) against a team owned by another coach B, the week the report was made
\* in holds exactly two rows for A and B: A's row with the opponent B's team,
\* scores (a, b) and the outcome of (a, b); B's row with the opponent A's team,
\* scores (b, a) and the negated outcome; both with user_game and without bye.
C1_MirroredPair ==
    (last.op = "submit" /\ last.arg # Null) =>
        LET res == last.arg[1]
            wk == last.week[1][1]
            A == res.discord_id
            a == res.user_score[1]
            b == res.opponent_score[1]
        IN (A \in DOMAIN users /\ users[A].team_id # Null) =>
             \A B \in OwnersReportedAgainst(res) :
                /\ Cardinality({r \in games : r.week_num = wk /\ r.discord_id \in {A, B}}) = 2
                /\ \E r \in games :
                      /\ r.week_num = wk /\ r.discord_id = A
                      /\ r.opponent_id = users[B].team_id
                      /\ r.user_score = Some(a) /\ r.opp_score = Some(b)
                      /\ r.user_win = OutcomeOf(a, b)
                      /\ r.user_game /\ ~r.bye
                /\ \E r \in games :
                      /\ r.week_num = wk /\ r.discord_id = B
                      /\ r.opponent_id = users[A].team_id
                      /\ r.user_score = Some(b) /\ r.opp_score = Some(a)
                      /\ r.user_win = NegatedOutcomeOf(a, b)
                      /\ r.user_game /\ ~r.bye

\* A won a game against B's team and the report has just completed.
C1_Witness ==
    /\ last.op = "submit" /\ last.arg # Null
    /\ last.arg[1].user_win = Some(TRUE)
    /\ OwnersReportedAgainst(last.arg[1]) # {}
    /\ \E r \in games : r.discord_id \in OwnersReportedAgainst(last.arg[1])
                        /\ r.week_num = last.week[1][1] /\ r.user_win = Some(FALSE)

\* The row that mirrors r for the coach o who owns r's opponent team.
IsPartner(r, p, o) ==
    /\ p.week_num = r.week_num /\ p.year = r.year /\ p.discord_id = o
    /\ p.opponent_id = TeamOfUser(users, r.discord_id)
    /\ p.user_score = r.opp_score /\ p.opp_score = r.user_score
    /\ p.user_win = (IF r.user_win = Null THEN Null ELSE Some(~r.user_win[1]))

\* C2: in every state reached by completed reports and week advances, every
\* row with user_game = true has a partner row of the same (week_num, year),
\* owned by the coach of its opponent team, naming the first row's coach's team
\* as opponent, with the scores swapped and the outcome negated.
C2_UserGamePaired ==
    \A r \in games : r.user_game =>
        /\ r.opponent_id # Null
        /\ \E o \in DOMAIN users : users[o].team_id = r.opponent_id
                                    /\ \E p \in games : IsPartner(r, p, o)

\* C8: whenever a report has completed and every known coach's result for the
\* active week is present, the week has been advanced: no handler leaves the
\* league in an active week that all coaches have reported for.
C8_CompleteWeekAdvanced ==
    ~(ActiveRows(weeks) # {} /\ DOMAIN users # {} /\ DOMAIN users \subseteq reported
      /\ \A c \in Callers : proc[c] = Idle)

---------------------------------------------------------------------------
(* Claims about week advancement                                           *)

\* C7: auto-advance moves the league off the active week only once every known
\* coach has had a result written for that week of that season: when a report's
\* completion check advances, every coach's row was written since the previous
\* advance.
C7_AutoAdvanceOnlyWhenAllReported ==
    (last.op = "submit" /\ last.out = "advanced") => DOMAIN users \subseteq last.had

\* The step from weeks table w to v is one advance by the calendar rule.
IsCalendarStep(w, v) ==
    \E i \in 1..Len(w) :
        /\ w[i].active /\ w[i].week_num \in 0..21
        /\ Len(v) = Len(w) + 1
        /\ \A j \in 1..Len(w) : v[j] = [w[j] EXCEPT !.active = FALSE]
        /\ v[Len(v)] = [week_num |-> IF w[i].week_num = 21 THEN 0 ELSE w[i].week_num + 1,
                        year |-> IF w[i].week_num = 21 THEN w[i].year + 1 ELSE w[i].year,
                        active |-> TRUE]

C10_DescriptorIsInsertedRow ==
    (last.out = "advanced") =>
        /\ last.ret # Null
        /\ \E i \in ActiveRows(weeks) :
              /\ last.ret[1].week_num = <<"int", weeks[i].week_num>>
              /\ last.ret[1].year = weeks[i].year

---------------------------------------------------------------------------
(* Claims about concurrent callers and failures, checked under ConcSpec    *)

\* C3: when no operation is under way, no row records a game against a team
\* whose coach has no row for that week: add_result never leaves only the
\* reporter's side of a user-vs-user game, whether it ran to its end or failed
\* between its writes.
C3_NoOneSidedGame ==
    Quiescent =>
        \A r \in games :
            (~r.bye /\ r.opponent_id # Null) =>
                \A o \in UsersByTeam(users, r.opponent_id[1]) \ {r.discord_id} :
                    GetGame(games, r.week_num, o) # {}

\* C4: at most one row of weeks is active, whatever advance_week,
\* maybe_auto_advance_week and add_result calls interleave.
C4_AtMostOneActiveWeek == Cardinality(ActiveRows(weeks)) <= 1

\* A caller came back empty-handed from the row lock because another caller
\* advanced the week in between, and one week is active.
C4_Witness ==
    /\ last.out = "none_row_taken"
    /\ Len(weeks) >= 2
    /\ Cardinality(ActiveRows(weeks)) = 1

NoDuplicateWeek(w) ==
    \A i, j \in 1..Len(w) : (w[i].week_num = w[j].week_num /\ w[i].year = w[j].year) => i = j

MaaPcs == {"tx_select", "tx_lock", "tx_count", "tx_advance"}

InMaa(p) == proc[p].pc \in MaaPcs /\ proc[p].then_maa

\* C5: callers of maybe_auto_advance_week racing on one complete week make one
\* transition between them: every change of weeks inserts one row, one
\* calendar step after the row that is active, never a week that is already
\* there, and a caller that returns none leaves weeks as it was.
C5_OneTransitionPerWeek ==
    [][/\ weeks' # weeks =>
            /\ Len(weeks') = Len(weeks) + 1
            /\ NoDuplicateWeek(weeks')
            /\ IsCalendarStep(weeks, weeks')
       /\ \A p \in Callers :
            (InMaa(p) /\ proc'[p] = Idle /\ last'.ret = Null) => weeks' = weeks]_vars

\* One caller's maybe_auto_advance_week has advanced the complete week while
\* the other's, started on the same week, still waits for the row.
C5_Witness ==
    \E p, q \in Callers :
        /\ p # q
        /\ last.who = p /\ last.out = "advanced" /\ last.op \in {"submit", "maybe_auto_advance_week"}
        /\ InMaa(q) /\ proc[q].pc = "tx_lock"
        /\ ~weeks[proc[q].target].active
        /\ Len(weeks) = 2

\* Distinct reporters of a week number, as a count.
Reporters(week_num) == Cardinality({r.discord_id : r \in {x \in games : x.week_num = week_num}})

\* C6: a step of maybe_auto_advance_week taken while there is no active week,
\* no user, or fewer reporters for the active week number than users leaves
\* weeks and games unchanged, and the call returns none.
C6_NoOpFrame ==
    [][\A p \in Callers :
          (/\ InMaa(p)
           /\ proc'[p] # proc[p]
           /\ \/ ActiveRows(weeks) = {}
              \/ Cardinality(DOMAIN users) = 0
              \/ \E i \in ActiveRows(weeks) : Reporters(weeks[i].week_num) < Cardinality(DOMAIN users))
          => /\ weeks' = weeks
             /\ games' = games
             /\ (proc'[p] = Idle /\ last'.out # "crashed") => last'.ret = Null]_vars

\* maybe_auto_advance_week has returned none on an active week with no users.
C6_Witness ==
    /\ last.op = "maybe_auto_advance_week"
    /\ last.out = "none_not_all_reported"
    /\ DOMAIN users = {}
    /\ ActiveRows(weeks) # {}
    /\ Len(weeks) = 1

---------------------------------------------------------------------------
(* Claims about what a report stores, checked under Spec                   *)

\* The handler that ran last recorded a result: its result dict is last.arg,
\* the week it read is last.week.
ReportDone(ev) == ev.arg # Null /\ ev.out \in {"recorded", "advanced", "bye_logged"}

\* The row of the coach who reported last, in the week they reported in.
ReporterRows(g, ev) == GetGame(g, ev.week[1][1], ev.who)

ReportStep == (last' # last \/ games' # games) /\ ReportDone(last')

C17_ByeTouchesOnlyReporter ==
    [][(ReportStep /\ last'.arg[1].bye) =>
          /\ \E r \in games' :
                /\ ReporterRows(games', last') = {r}
                /\ r.bye /\ r.opponent_id = Null
                /\ r.user_score = Null /\ r.opp_score = Null /\ r.user_win = Null
          /\ {r \in games' : r.discord_id # last'.who} = {r \in games : r.discord_id # last'.who}]_vars

\* A bye was logged with /loggame BYE while another coach has a row.
C17_Witness ==
    /\ last.op = "loggame" /\ last.out = "bye_logged"
    /\ \E r \in ReporterRows(games, last) : r.bye
    /\ \E r \in games : r.discord_id # last.who

---------------------------------------------------------------------------
(* Claims about seasons, checked under SeasonSpec                          *)

\* C13: the rows a report writes, the reporter's and the mirrored one, carry
\* the week_num and the year of the week that is active when the report is
\* made, also when the coach has a row for the same week_num of an earlier
\* season.
C13_RowsCarryActiveWeek ==
    ReportDone(last) =>
        \A d \in {last.who} \cup MirrorTargets(users, last.arg[1]) :
            /\ GetGame(games, last.week[1][1], d) # {}
            /\ \A r \in GetGame(games, last.week[1][1], d) : r.year = last.week[1][2]

\* C14: has_played_team_this_year(c, t) is true right after c has reported a
\* game against t, while the year of that report is still the active year; it
\* is false when every row of c against t is of another year than the active
\* one.
C14_PlayedThisYear ==
    \A i \in ActiveRows(weeks) :
        /\ (ReportDone(last) /\ ~last.arg[1].bye /\ weeks[i].year = last.week[1][2]) =>
              HasPlayed(games, last.who, last.arg[1].opponent_id[1], weeks[i].year)
        /\ \A c \in DOMAIN users : \A t \in Teams :
              (\A r \in games : (r.discord_id = c /\ r.opponent_id = Some(t)) => r.year # weeks[i].year) =>
                 ~HasPlayed(games, c, t, weeks[i].year)

---------------------------------------------------------------------------
(* Claims about the standings, checked under StandSpec                     *)

\* The coaches with a row of the year, and one coach's rows of the year.
CoachesOfYear(year) == {r.discord_id : r \in {x \in games : x.year = year}}
RowsOfYear(d, year) == {r \in games : r.discord_id = d /\ r.year = year}

\* C15: get_standings lists one entry per coach with a row of the active
\* week's year, with wins, losses and ties the numbers of that coach's rows of
\* the year with user_win true, false and null, and total_games their sum;
\* without an active week the list is empty.
C15_StandingsCounts ==
    last.op = "get_standings" =>
        LET s == last.ret[1]
        IN  IF ActiveRows(weeks) = {} THEN s = << >>
            ELSE \E i \in ActiveRows(weeks) :
                    /\ Len(s) = Cardinality(CoachesOfYear(weeks[i].year))
                    /\ {s[k].discord_id : k \in 1..Len(s)} = CoachesOfYear(weeks[i].year)
                    /\ \A k \in 1..Len(s) :
                          LET mine == RowsOfYear(s[k].discord_id, weeks[i].year)
                          IN  /\ s[k].wins = Cardinality({r \in mine : r.user_win = Some(TRUE)})
                              /\ s[k].losses = Cardinality({r \in mine : r.user_win = Some(FALSE)})
                              /\ s[k].ties = Cardinality({r \in mine : r.user_win = Null})
                              /\ s[k].total_games = s[k].wins + s[k].losses + s[k].ties

\* Standings were listed in a year that follows a year with rows, with an
\* entry that counts a tie or a bye.
C15_Witness ==
    /\ last.op = "get_standings"
    /\ \E i \in ActiveRows(weeks) :
          /\ \E r \in games : r.year # weeks[i].year
          /\ \E k \in 1..Len(last.ret[1]) : last.ret[1][k].total_games >= 1
    /\ \E k \in 1..Len(last.ret[1]) : last.ret[1][k].ties >= 1

\* C16: the list of get_standings is ordered by wins descending, then losses
\* ascending, then ties descending: no entry is behind the one that follows it.
C16_StandingsOrder ==
    last.op = "get_standings" =>
        \A k \in 1..(Len(last.ret[1]) - 1) :
            LET a == last.ret[1][k]
                b == last.ret[1][k + 1]
            IN  \/ a.wins > b.wins
                \/ a.wins = b.wins /\ a.losses < b.losses
                \/ a.wins = b.wins /\ a.losses = b.losses /\ a.ties >= b.ties

\* Two coaches with equal wins were listed, the one with fewer losses first.
C16_Witness ==
    /\ last.op = "get_standings"
    /\ Len(last.ret[1]) = 2
    /\ last.ret[1][1].wins = last.ret[1][2].wins
    /\ last.ret[1][1].losses < last.ret[1][2].losses

---------------------------------------------------------------------------
(* Claims about the check that follows a report, under ConcSpec            *)

\* C20: when the completion check of on_submit starts, the rows its report
\* wrote are in games, and no step of the check, whether it advances, returns
\* none or fails, removes or changes any row.
C20_ReportSurvivesCheck ==
    [][\A p \in Callers :
          (InMaa(p) /\ proc[p].job = "submit" /\ proc'[p] # proc[p]) =>
              /\ \A d \in {p} \cup ({proc[p].o} \ {""}) : GetGame(games, proc[p].aw.week_num, d) # {}
              /\ games' = games]_vars

\* The check of a report failed and the reporter's game is in the ledger.
C20_Witness ==
    /\ last.op = "submit" /\ last.out = "recorded_check_failed"
    /\ \E r \in games : r.discord_id = last.who /\ ~r.bye

---------------------------------------------------------------------------
(* Claims about a league without an active week                            *)

\* C18: add_result called while no week is active raises the no-active-week
\* error and leaves games and weeks as they were; get_active_week and
\* get_active_week_row return None in such a state.
C18_NoActiveWeekRaises ==
    [][ActiveRows(weeks) = {} =>
          /\ GetActiveWeek(weeks) = {Null}
          /\ GetActiveWeekRow(weeks) = {Null}
          /\ \A p \in Callers :
                (proc[p].pc = "ar_read" /\ proc'[p] # proc[p] /\ last'.out # "crashed") =>
                    /\ proc'[p] = Idle
                    /\ last'.who = p /\ last'.out = "raised_no_active_week"
                    /\ games' = games /\ weeks' = weeks]_vars

\* add_result has raised on a league with no week and nothing stored.
C18_Witness ==
    /\ last.out = "raised_no_active_week"
    /\ weeks = << >> /\ games = {}
    /\ GetActiveWeekRow(weeks) = {Null}

\* C19: /advance by an admin while no week is active inserts no row, activates
\* none and tells the caller that there is no active week.
C19_AdvanceWithoutWeekFails ==
    [][(/\ last'.op = "advance"
        /\ ValidateAdmin(users, last'.who)
        /\ ActiveRows(weeks) = {})
       => /\ weeks' = weeks
          /\ last'.out = "no_active_week"
          /\ last'.ret = Null]_vars

\* An admin ran /advance on a league with no week and was told so.
C19_Witness ==
    /\ last.op = "advance" /\ last.out = "no_active_week"
    /\ ValidateAdmin(users, last.who)
    /\ weeks = << >>

---------------------------------------------------------------------------
(* Claims about the history of weeks and games                             *)

\* C21: the weeks table only grows: no row is deleted, no row changes its
\* week_num or year, a row that is not active never becomes active again, and
\* a step that changes the table deactivates the active row and appends one
\* new active row.
C21_WeeksAppendOnly ==
    [][/\ Len(weeks') >= Len(weeks)
       /\ \A i \in 1..Len(weeks) :
             /\ weeks'[i].week_num = weeks[i].week_num
             /\ weeks'[i].year = weeks[i].year
             /\ ~weeks[i].active => ~weeks'[i].active
       /\ weeks' # weeks =>
             /\ Len(weeks') = Len(weeks) + 1
             /\ weeks'[Len(weeks')].active
             /\ \A i \in 1..Len(weeks) : ~weeks'[i].active]_vars

\* Two advances have happened: two past weeks, inactive, and the active one.
C21_Witness ==
    /\ Len(weeks) = 3
    /\ ~weeks[1].active /\ ~weeks[2].active /\ weeks[3].active

---------------------------------------------------------------------------
(* Claims about reports racing with each other and with an advance         *)

\* p has come to the end of add_result for a game against the team of q.
ReportedAgainst(p, q) ==
    /\ proc[p].pc = "tx_select" /\ proc[p].job = "submit"
    /\ proc[p].result[1].opponent_id # Null
    /\ proc[p].result[1].opponent_id = TeamOfUser(users, q)

\* C23: when the two coaches of one user-vs-user game have both reported it at
\* the same time, each with their own scores, the two rows agree once both
\* calls of add_result have returned: scores swapped, outcomes negated.
C23_ConcurrentReportsAgree ==
    \A p, q \in Callers :
        (p # q /\ ReportedAgainst(p, q) /\ ReportedAgainst(q, p) /\ proc[p].aw = proc[q].aw) =>
            \E rp \in GetGame(games, proc[p].aw.week_num, p) :
            \E rq \in GetGame(games, proc[p].aw.week_num, q) :
                /\ rp.user_score = rq.opp_score
                /\ rp.opp_score = rq.user_score
                /\ rp.user_win = IF rq.user_win = Null THEN Null ELSE Some(~rq.user_win[1])

\* C30: every row add_result writes is written under the week that is active
\* at the moment of the write, also when an advance commits between the read
\* of the active week and the write; the mirrored row is written under the
\* (week_num, year) of the reporter's row.
C30_RowsUnderActiveWeek ==
    [][/\ \A r \in games' \ games :
             \E i \in ActiveRows(weeks) : weeks[i].week_num = r.week_num /\ weeks[i].year = r.year
       /\ \A p \in Callers :
             (proc[p].pc = "ar_mirror" /\ proc'[p].pc = "ar_flag") =>
                 \E rp \in GetGame(games', proc[p].aw.week_num, p) :
                 \E ro \in GetGame(games', proc[p].aw.week_num, proc'[p].o) :
                     rp.year = ro.year]_vars

---------------------------------------------------------------------------
(* Claims about the shape of a row and about coaches without a team        *)

\* C24: every row of games is either a bye or has an opponent, never both and
\* never neither, and a bye row has no scores and no outcome; the rows written
\* for an opponent by mirroring included.
C24_ByeXorOpponent ==
    \A r \in games :
        /\ r.bye # (r.opponent_id # Null)
        /\ r.bye => (r.user_score = Null /\ r.opp_score = Null /\ r.user_win = Null)

\* C25: when a registered coach without a team submits scores against a team
\* another coach owns, in an active week, the report is recorded: the
\* reporter's row holds the report, the owner's row holds no opponent, the
\* scores swapped and the outcome negated, and both rows have user_game.
C25_UnassignedReporterMirrored ==
    [][\A c \in Callers :
          (/\ ui[c].kind = "modal" /\ ui'[c].kind = "none"
           /\ last'.op = "submit" /\ last'.who = c /\ last'.out # "scores_rejected"
           /\ ValidateUser(users, c) /\ TeamOfUser(users, c) = Null
           /\ ActiveRows(weeks) # {}
           /\ UsersByTeam(users, ui[c].opp) \ {c} # {}) =>
              /\ last'.out \in {"recorded", "advanced"}
              /\ \E o \in UsersByTeam(users, ui[c].opp) :
                 \E rc \in ReporterRows(games', last') :
                 \E ro \in GetGame(games', last'.week[1][1], o) :
                    /\ rc.opponent_id = Some(ui[c].opp)
                    /\ rc.user_score = last'.arg[1].user_score
                    /\ rc.opp_score = last'.arg[1].opponent_score
                    /\ rc.user_win = last'.arg[1].user_win
                    /\ ro.opponent_id = Null
                    /\ ro.user_score = rc.opp_score /\ ro.opp_score = rc.user_score
                    /\ ro.user_win = IF rc.user_win = Null THEN Null ELSE Some(~rc.user_win[1])
                    /\ rc.user_game /\ ro.user_game]_vars

\* The coach without a team has reported a win over the team of the other
\* coach, and the report was recorded.
C25_Witness ==
    /\ last.op = "submit" /\ last.out \in {"recorded", "advanced"}
    /\ TeamOfUser(users, last.who) = Null
    /\ UsersByTeam(users, last.arg[1].opponent_id[1]) # {}
    /\ last.arg[1].user_win = Some(TRUE)
    /\ \E r \in games : r.discord_id # last.who /\ r.opponent_id = Null /\ ~r.bye /\ r.user_game

---------------------------------------------------------------------------
(* Claims about user games                                                 *)

\* C26: a row has user_game exactly when it is not a bye and its opponent is
\* a team some user owns; a row overwritten by a later bye or by a report
\* against a team nobody owns is no longer flagged.
C26_UserGameIffOwnedOpponent ==
    \A r \in games :
        r.user_game <=> (~r.bye /\ r.opponent_id # Null /\ UsersByTeam(users, r.opponent_id[1]) # {})

\* C27: once a coach's row for the active week is a user game, a /loggame by
\* that coach in that week, with a team or with BYE, is turned down with the
\* message to contact a commissioner and leaves games as it was.
C27_UserGameRowIsFinal ==
    [][\A c \in Callers :
          (/\ \E i \in ActiveRows(weeks) : \E r \in GetGame(games, weeks[i].week_num, c) : r.user_game
           /\ last'.op = "loggame" /\ last'.who = c
           /\ (last' # last \/ games' # games \/ ui' # ui)) =>
              /\ last'.out \in {"already_played", "user_game_logged"}
              /\ games' = games]_vars

\* C28: no coach has two rows in different weeks of the same year against the
\* same opponent team, whatever reports (mirrored ones included) and advances
\* have happened.
C28_NoRematchInSeason ==
    \A r1, r2 \in games :
        (/\ r1.discord_id = r2.discord_id /\ r1.year = r2.year
         /\ r1.opponent_id # Null /\ r1.opponent_id = r2.opponent_id) => r1.week_num = r2.week_num

---------------------------------------------------------------------------
(* Claims about what changes the games table                               *)

\* The (week_num, discord_id) keys of a games table.
GameKeys(g) == {<<r.week_num, r.discord_id>> : r \in g}

\* C29: no step removes a (week_num, discord_id) key from games, and a step
\* that changes games is a report whose add_result left exactly the new table:
\* /advance, the automatic advance after a report, /standings and the rematch
\* check of /loggame change no row.
C29_OnlyReportsChangeGames ==
    [][/\ GameKeys(games) \subseteq GameKeys(games')
       /\ (games' # games) =>
             /\ last'.arg # Null
             /\ \E i \in ActiveRows(weeks) : \E ar \in AddResult(games, weeks[i], users, last'.arg[1]) :
                   games' = ar.games
       /\ (last'.op \in {"advance", "get_standings"} \/ last'.arg = Null) => games' = games]_vars

\* An admin has advanced the week while games held rows of it, and the rows
\* are still there.
C29_Witness ==
    /\ last.op = "advance" /\ last.out = "advanced"
    /\ last.from # Null /\ \E r \in games : r.week_num = last.from[1][1]

---------------------------------------------------------------------------
(* Claims about the calendar over many advances                            *)

\* (year, week_num) of row a comes strictly before that of row b.
WeekBefore(a, b) == a.year < b.year \/ (a.year = b.year /\ a.week_num < b.week_num)

====
